---- MODULE Spec2Model ----
(***************************************************************************)
(* Model of libqiprog: device discovery (libqiprog.c) and the USB host     *)
(* driver (usb_master.c).                                                  *)
(*                                                                         *)
(* Pointers are modelled as naturals: a qiprog_device pointer is an index  *)
(* into the heap `devices` (0 is the null pointer); a libusb_device is its *)
(* position in the enumeration that produced it; a libusb_device_handle is *)
(* 0 (NULL) or the number of the libusb_device it was opened on.           *)
(* TLC integers are 32-bit signed, so the 32-bit samples stay below 2^31.  *)
(***************************************************************************)
EXTENDS Integers, Sequences, FiniteSets, TLC

VARIABLES
    driver_list,  \* libqiprog.c: the list of compiled-in drivers
    usb_bus,      \* what each driver's transport holds: a sequence of descriptors
    devices,      \* heap of struct qiprog_device, in allocation order
    list,         \* the caller's `list` out-parameter of qiprog_get_device_list
    call,         \* the last call: [op, dev, args, bus]; bus: for discovery,
                  \* what each scan met: [cnt, allocs]
    ret,          \* its return code ("none": it never returned)
    out,          \* its output parameter, flattened to a sequence of integers
    usb_calls,    \* the libusb calls made during it, in order
    crashed       \* the process died in undefined behaviour

vars == <<driver_list, usb_bus, devices, list, call, ret, out, usb_calls, crashed>>

(***************************************************************************)
(* Bounds of the model.                                                    *)
(***************************************************************************)
MaxDevs == 2      \* devices allocated in one run of the driver model
MaxListed == 3    \* devices allocated in one run of the discovery model
MaxEnum == 2      \* length of one libusb enumeration
MaxDrivers == 2   \* length of a generalised driver list

(***************************************************************************)
(* Program constants.                                                      *)
(***************************************************************************)
NULL == 0
Timeout == 3000
CapsVoltages == 10
ChipIds == 9
BufSize == 64

USB_DRV == "qiprog_usb_master_drv"
NO_DRV == "NULL"

\* bmRequestType of the vendor requests: 0xc0 (device-to-host), 0x40 (host-to-device)
REQ_IN == 12 * 16

\* Faulty variant: the direction bit is set on a host-to-device request
REQ_OUT_in == 12 * 16

REQ_OUT == 4 * 16

\* Direction bit (bit 7) of a bmRequestType
Direction(bmRequestType) ==
    IF (bmRequestType \div 128) % 2 = 1 THEN "device-to-host" ELSE "host-to-device"

(***************************************************************************)
(* Wire codec (util.c): little-endian, byte by byte.                       *)
(***************************************************************************)
RECURSIVE Pow256(_)
Pow256(i) == IF i = 0 THEN 1 ELSE 256 * Pow256(i - 1)

ByteOf(v, i) == (v \div Pow256(i)) % 256

h_to_le16(v) == <<ByteOf(v, 0), ByteOf(v, 1)>>

h_to_le32(v) == <<ByteOf(v, 0), ByteOf(v, 1), ByteOf(v, 2), ByteOf(v, 3)>>

\* `off` is the byte offset in buf (0-based, as in C)
le16_to_h(buf, off) == buf[off + 1] + 256 * buf[off + 2]

le32_to_h(buf, off) ==
    buf[off + 1] + 256 * buf[off + 2] + 65536 * buf[off + 3] + 16777216 * buf[off + 4]

(***************************************************************************)
(* Wire layouts (qiprog.h), as byte sizes and offsets.                     *)
(***************************************************************************)
\* struct qiprog_capabilities: u32 bus_master, u16 instruction_set,
\* u32 max_direct_data, u16 voltages[10]
CapsSize == 4 + 2 + 4 + 2 * CapsVoltages
OFF_bus_master == 0 * 1
OFF_instruction_set == 4 * 1
OFF_max_direct_data == 4 + 2
OFF_voltages == 4 + 2 + 4

\* struct qiprog_chip_id: u8 id_method, u16 vendor_id, u32 device_id
ChipIdSize == 1 + 2 + 4

\* struct qiprog_address: u32 start_address, u32 max_address
AddressSize == 4 + 4

(***************************************************************************)
(* Heap objects.                                                           *)
(***************************************************************************)
\* qiprog_new_device(): a device with no driver and no private state yet
RawDevice == [drv |-> NO_DRV, has_priv |-> FALSE, usb_dev |-> 0, handle |-> NULL]

\* The result of a failed construction
NoDevice == [drv |-> NO_DRV, has_priv |-> FALSE, usb_dev |-> 0, handle |-> NULL,
             null |-> TRUE]

\* Faulty variant: the device is constructed with a handle already set
new_usb_prog_opened(drv, libusb_dev, alloc) ==
    IF alloc = "no_dev" THEN NoDevice
    ELSE IF alloc = "no_priv" THEN NoDevice
    ELSE [drv |-> drv, has_priv |-> TRUE, usb_dev |-> libusb_dev,
          handle |-> libusb_dev]

\* usb_master.c new_usb_prog, for the driver `drv` that runs the scan.
\* alloc: "ok", "no_dev" (qiprog_new_device failed), "no_priv" (malloc failed)
new_usb_prog(drv, libusb_dev, alloc) ==
    IF alloc = "no_dev" THEN NoDevice
    ELSE IF alloc = "no_priv" THEN NoDevice
    ELSE [drv |-> drv, has_priv |-> TRUE, usb_dev |-> libusb_dev, handle |-> NULL]

IsNullDevice(d) == "null" \in DOMAIN d

(***************************************************************************)
(* USB enumeration.                                                        *)
(***************************************************************************)
\* The device descriptors an enumerated device can have: a QiProg programmer,
\* another vendor's device, another product of the vendor, and a device whose
\* descriptor cannot be read
QIPROG_DEV == [descr_ok |-> TRUE, idVendor |-> "USB_VID_OPENMOKO",
               idProduct |-> "USB_PID_OPENMOKO_VULTUREPROG"]
WRONG_VID == [descr_ok |-> TRUE, idVendor |-> "other",
              idProduct |-> "USB_PID_OPENMOKO_VULTUREPROG"]
WRONG_PID == [descr_ok |-> TRUE, idVendor |-> "USB_VID_OPENMOKO",
              idProduct |-> "other"]
NO_DESCR == [descr_ok |-> FALSE, idVendor |-> "USB_VID_OPENMOKO",
             idProduct |-> "USB_PID_OPENMOKO_VULTUREPROG"]

\* usb_master.c is_interesting
is_interesting(dev) ==
    IF ~dev.descr_ok THEN FALSE
    ELSE IF (dev.idVendor # "USB_VID_OPENMOKO")
            \/ (dev.idProduct # "USB_PID_OPENMOKO_VULTUREPROG") THEN FALSE
    ELSE TRUE

\* dev_list_append (core.c): the registry grows at its end
dev_list_append(qi_list, qi_dev) == Append(qi_list, qi_dev)

\* usb_master.c scan, the loop from index i on.
\* st = [devices, qi_list, calls]: the heap, the registry, the libusb calls.
\* env = [cnt, list, allocs, fail]: the enumeration, the number of device
\* constructions that succeed, and the allocation that fails after them.
RECURSIVE scan_loop(_, _, _, _, _)
scan_loop(drv, env, i, allocs, st) ==
    IF i > env.cnt THEN st
    ELSE IF is_interesting(env.list[i])
    THEN LET qi_dev == new_usb_prog(drv, i, IF allocs > 0 THEN "ok" ELSE env.fail)
         IN  IF IsNullDevice(qi_dev) THEN st
             ELSE scan_loop(drv, env, i + 1, allocs - 1,
                     [st EXCEPT !.devices = Append(st.devices, qi_dev),
                                !.qi_list = dev_list_append(st.qi_list,
                                                            Len(st.devices) + 1)])
    ELSE scan_loop(drv, env, i + 1, allocs, st)

\* The call of libusb_get_device_list, as logged; `by` is the scanning driver
GetDeviceListCall(by, cnt) ==
    [fn |-> "libusb_get_device_list", by |-> by, dev |-> 0, handle |-> 0,
     bmRequestType |-> 0, bRequest |-> "", wValue |-> 0, wIndex |-> 0,
     data |-> <<>>, wLength |-> 0, timeout |-> 0, ret |-> cnt]

scan(drv, env, st) ==
    LET st1 == [st EXCEPT !.calls = Append(st.calls, GetDeviceListCall(drv, env.cnt))]
    IN  IF env.cnt < 0 THEN st1
        ELSE scan_loop(drv, env, 1, env.allocs, st1)

\* Which drivers supply a scan routine
HasScan(drv) == drv # "noscan_drv"

\* Faulty variant: a driver without scan ends the loop (break for continue)
RECURSIVE driver_loop_break(_, _, _)
driver_loop_break(i, bus, st) ==
    IF i > Len(driver_list) THEN st
    ELSE IF ~HasScan(driver_list[i]) THEN st
    ELSE driver_loop_break(i + 1, bus, scan(driver_list[i], bus[i], st))

\* libqiprog.c qiprog_get_device_list, the loop over driver_list from i on
RECURSIVE driver_loop(_, _, _)
driver_loop(i, bus, st) ==
    IF i > Len(driver_list) THEN st
    ELSE IF ~HasScan(driver_list[i]) THEN driver_loop(i + 1, bus, st)
    ELSE driver_loop(i + 1, bus, scan(driver_list[i], bus[i], st))

(***************************************************************************)
(* Inputs of the environment and of the caller.                            *)
(***************************************************************************)
\* A bus with one programmer among devices is_interesting rejects
SampleBus == <<WRONG_VID, QIPROG_DEV, WRONG_PID, NO_DESCR>>

\* Enumerations libusb_get_device_list can produce
Enums == UNION { [1..n -> {QIPROG_DEV, WRONG_VID}] : n \in 0..MaxEnum }

NumInteresting(l) == Cardinality({ i \in 1..Len(l) : is_interesting(l[i]) })

\* What one scan meets: the enumeration (cnt < 0: libusb_get_device_list
\* failed), how many device constructions succeed, and which allocation
\* fails after that
ScanEnvs(enum) ==
    { [cnt |-> -1, list |-> <<>>, allocs |-> 0, fail |-> "none"] }
    \cup { [cnt |-> Len(enum), list |-> enum, allocs |-> NumInteresting(enum),
            fail |-> "none"] }
    \cup { [cnt |-> Len(enum), list |-> enum, allocs |-> a, fail |-> f] :
             a \in 0..(NumInteresting(enum) - 1), f \in {"no_dev", "no_priv"} }

NoEnv == [cnt |-> -1, list |-> <<>>, allocs |-> 0, fail |-> "none"]

\* One environment per entry of driver_list, from entry i on
RECURSIVE BusesFrom(_)
BusesFrom(i) ==
    IF i > Len(driver_list) THEN { <<>> }
    ELSE { <<e>> \o rest :
             e \in (IF HasScan(driver_list[i]) THEN ScanEnvs(usb_bus[i]) ELSE {NoEnv}),
             rest \in BusesFrom(i + 1) }

Buses == BusesFrom(1)

\* 0x12345678, 0x0001ffff, 0x7fffffff
Addrs == {305419896, 131071, 2147483647}

\* enum qiprog_bus selectors: none, two single buses, one with high bits set
BusArgs == {0, 1, 8, 196613}

Data8 == {171}
Data16 == {4660}
Data32 == {305419896}

\* (start, end) pairs: 0x1000/0x2000, the whole range, a reversed pair
Ranges == { <<4096, 8192>>, <<0, 2147483647>>, <<305419896, 4096>> }

\* Bytes a device answers with, n of them
WireSamples(n) == { [i \in 1..n |-> i] }

\* bus_master = 1, instruction_set = 0x0002, max_direct_data = 64,
\* voltages 3300, 1800, 0, ...
CapsScenario ==
    <<1, 0, 0, 0,  2, 0,  64, 0, 0, 0,  228, 12,  8, 7>>
    \o [i \in 1..(CapsSize - 14) |-> 0]

\* What the stack buffer holds before the transfer: every byte is this one
Garbage == {0, 90}

\* Results of libusb_control_transfer: LIBUSB_ERROR_TIMEOUT, LIBUSB_ERROR_IO,
\* or the number of bytes transferred (possibly fewer than asked for)
ControlResults(wLength) == {-7, -1, wLength \div 2, wLength}

\* Results of libusb_open: success, LIBUSB_ERROR_ACCESS, LIBUSB_ERROR_NO_DEVICE
OpenResults == {0, -3, -4}

\* Results of libusb_claim_interface: success, LIBUSB_ERROR_BUSY
ClaimResults == {0, -6}

(***************************************************************************)
(* libusb calls, as they are logged in usb_calls.                          *)
(***************************************************************************)
LibusbCall(fn, dev, handle, r) ==
    [fn |-> fn, dev |-> dev, handle |-> handle, bmRequestType |-> 0,
     bRequest |-> "", wValue |-> 0, wIndex |-> 0, data |-> <<>>,
     wLength |-> 0, timeout |-> 0, ret |-> r]

\* data: the bytes sent (host-to-device) or received (device-to-host)
libusb_control_transfer(handle, bmRequestType, bRequest, wValue, wIndex, data, wLength, timeout, r) ==
    [fn |-> "libusb_control_transfer", dev |-> 0, handle |-> handle,
     bmRequestType |-> bmRequestType, bRequest |-> bRequest,
     wValue |-> wValue, wIndex |-> wIndex, data |-> data,
     wLength |-> wLength, timeout |-> timeout, ret |-> r]

\* The bytes of a device-to-host transfer that arrived
Received(wire, r) == SubSeq(wire, 1, IF r < 0 THEN 0 ELSE r)

\* The 64-byte stack buffer after a device-to-host transfer of r bytes
BufAfter(wire, r, g) ==
    [i \in 1..BufSize |-> IF i <= r THEN wire[i] ELSE g]

\* 16-bit halves of a 32-bit parameter, as assigned to uint16_t
\* Faulty variant: the shift by 16 is missing
HighHalf_noshift(v) == v % 65536

HighHalf(v) == (v \div 65536) % 65536
LowHalf(v) == v % 65536

(***************************************************************************)
(* How a call ends.                                                        *)
(***************************************************************************)
Return(op, dev, args, rc, o, calls) ==
    /\ call' = [op |-> op, dev |-> dev, args |-> args, bus |-> <<>>]
    /\ ret' = rc
    /\ out' = o
    /\ usb_calls' = calls
    /\ UNCHANGED <<driver_list, usb_bus, list, crashed>>

\* The call never returns: libusb dereferenced a null handle
Crash(op, dev, args, calls) ==
    /\ call' = [op |-> op, dev |-> dev, args |-> args, bus |-> <<>>]
    /\ ret' = "none"
    /\ out' = <<>>
    /\ usb_calls' = calls
    /\ crashed' = TRUE
    /\ UNCHANGED <<driver_list, usb_bus, list>>

\* Faulty variant: the check of dev->priv is missing
NoPriv_never(dev) == FALSE

\* `!(priv = dev->priv)`: the device has no backend-private state

NoPriv(dev) == ~devices[dev].has_priv

\* Faulty variant: only a timeout counts as a failure
TransferFailed_timeout(r) == r = -7

\* `ret < LIBUSB_SUCCESS`: the control transfer failed

TransferFailed(r) == r < 0

\* libusb_control_transfer on a null handle is undefined: it may crash
CrashChoices(handle) == IF handle = NULL THEN BOOLEAN ELSE {FALSE}

(***************************************************************************)
(* libqiprog.c                                                             *)
(***************************************************************************)
\* Faulty variant: the check of ctx is missing
qiprog_get_device_list_nocheck(ctx, init_ok, bus, bound) ==
    /\ ~crashed
    /\ call' = [op |-> "qiprog_get_device_list", dev |-> NULL,
                args |-> <<ctx, IF init_ok THEN 1 ELSE 0>>,
                bus |-> [i \in 1..Len(bus) |->
                           [cnt |-> bus[i].cnt, allocs |-> bus[i].allocs]]]
    /\ ret' = "size_t"
    /\ UNCHANGED <<driver_list, usb_bus, crashed>>
    /\ IF ~init_ok
       THEN /\ out' = <<0>>
            /\ usb_calls' = <<>>
            /\ UNCHANGED <<devices, list>>
       ELSE LET st == driver_loop(1, bus,
                        [devices |-> devices, qi_list |-> <<>>, calls |-> <<>>])
            IN  /\ Len(st.devices) <= bound
                /\ devices' = st.devices
                /\ list' = st.qi_list
                /\ out' = <<Len(st.qi_list)>>
                /\ usb_calls' = st.calls

\* qiprog_get_device_list(ctx, list); ctx: 0 (NULL) or 1; init_ok: whether
\* dev_list_init succeeds; bus: what each driver's scan meets
qiprog_get_device_list(ctx, init_ok, bus, bound) ==
    /\ ~crashed
    /\ call' = [op |-> "qiprog_get_device_list", dev |-> NULL,
                args |-> <<ctx, IF init_ok THEN 1 ELSE 0>>,
                bus |-> [i \in 1..Len(bus) |->
                           [cnt |-> bus[i].cnt, allocs |-> bus[i].allocs]]]
    /\ ret' = "size_t"
    /\ UNCHANGED <<driver_list, usb_bus, crashed>>
    /\ IF ctx = NULL
       THEN /\ out' = <<0>>
            /\ usb_calls' = <<>>
            /\ UNCHANGED <<devices, list>>
       ELSE IF ~init_ok
       THEN /\ out' = <<0>>
            /\ usb_calls' = <<>>
            /\ UNCHANGED <<devices, list>>
       ELSE LET st == driver_loop(1, bus,
                        [devices |-> devices, qi_list |-> <<>>, calls |-> <<>>])
            IN  /\ Len(st.devices) <= bound
                /\ devices' = st.devices
                /\ list' = st.qi_list
                /\ out' = <<Len(st.qi_list)>>
                /\ usb_calls' = st.calls

\* qiprog_new_device (core.c), called on its own: a device without a driver
qiprog_new_device ==
    /\ ~crashed
    /\ Len(devices) < MaxDevs
    /\ devices' = Append(devices, RawDevice)
    /\ Return("qiprog_new_device", Len(devices) + 1, <<>>, "pointer", <<>>, <<>>)

(***************************************************************************)
(* usb_master.c                                                            *)
(***************************************************************************)
dev_open(dev) ==
    /\ ~crashed
    /\ IF dev = NULL
       THEN /\ Return("dev_open", dev, <<>>, "QIPROG_ERR_ARG", <<>>, <<>>)
            /\ UNCHANGED devices
       ELSE IF NoPriv(dev)
       THEN /\ Return("dev_open", dev, <<>>, "QIPROG_ERR_ARG", <<>>, <<>>)
            /\ UNCHANGED devices
       ELSE \E r1 \in OpenResults, r2 \in ClaimResults :
            LET priv == devices[dev]
                open == LibusbCall("libusb_open", priv.usb_dev, NULL, r1)
                handle == priv.usb_dev
                claim == LibusbCall("libusb_claim_interface", 0, handle, r2)
            IN  IF r1 # 0
                THEN /\ Return("dev_open", dev, <<>>, "QIPROG_ERR", <<>>, <<open>>)
                     /\ UNCHANGED devices
                ELSE IF r2 # 0
                THEN /\ Return("dev_open", dev, <<>>, "QIPROG_ERR", <<>>,
                               <<open, claim>>)
                     /\ devices' = [devices EXCEPT ![dev].handle = handle]
                ELSE /\ Return("dev_open", dev, <<>>, "QIPROG_SUCCESS", <<>>,
                               <<open, claim>>)
                     /\ devices' = [devices EXCEPT ![dev].handle = handle]

get_capabilities(dev) ==
    /\ ~crashed
    /\ UNCHANGED devices
    /\ IF dev = NULL
       THEN Return("get_capabilities", dev, <<>>, "QIPROG_ERR_ARG", <<>>, <<>>)
       ELSE IF NoPriv(dev)
       THEN Return("get_capabilities", dev, <<>>, "QIPROG_ERR_ARG", <<>>, <<>>)
       ELSE \E r \in ControlResults(CapsSize),
               wire \in WireSamples(CapsSize) \cup {CapsScenario},
               g \in Garbage, crash \in CrashChoices(devices[dev].handle) :
            LET priv == devices[dev]
                xfer == libusb_control_transfer(priv.handle, REQ_IN,
                            "QIPROG_GET_CAPABILITIES", 0, 0,
                            Received(wire, r), CapsSize, Timeout, r)
                buf == BufAfter(wire, r, g)
                caps == <<le32_to_h(buf, OFF_bus_master),
                          le16_to_h(buf, OFF_instruction_set),
                          le32_to_h(buf, OFF_max_direct_data)>>
                        \o [i \in 1..CapsVoltages |->
                               le16_to_h(buf, OFF_voltages + 2 * (i - 1))]
            IN  IF crash THEN Crash("get_capabilities", dev, <<>>, <<xfer>>)
                ELSE IF TransferFailed(r)
                THEN Return("get_capabilities", dev, <<>>, "QIPROG_ERR", <<>>, <<xfer>>)
                ELSE Return("get_capabilities", dev, <<>>, "QIPROG_SUCCESS",
                            caps, <<xfer>>)

\* Faulty variant: the check of the bus selector is missing
set_bus_nozero(dev, bus) ==
    /\ ~crashed
    /\ UNCHANGED devices
    /\ IF dev = NULL
       THEN Return("set_bus", dev, <<bus>>, "QIPROG_ERR_ARG", <<>>, <<>>)
       ELSE IF NoPriv(dev)
       THEN Return("set_bus", dev, <<bus>>, "QIPROG_ERR_ARG", <<>>, <<>>)
       ELSE \E r \in ControlResults(0),
               crash \in CrashChoices(devices[dev].handle) :
            LET priv == devices[dev]
                wValue == HighHalf(bus)
                wIndex == LowHalf(bus)
                xfer == libusb_control_transfer(priv.handle, REQ_OUT,
                            "QIPROG_SET_BUS", wValue, wIndex,
                            <<>>, 0, Timeout, r)
            IN  IF crash THEN Crash("set_bus", dev, <<bus>>, <<xfer>>)
                ELSE IF TransferFailed(r)
                THEN Return("set_bus", dev, <<bus>>, "QIPROG_ERR", <<>>, <<xfer>>)
                ELSE Return("set_bus", dev, <<bus>>, "QIPROG_SUCCESS",
                            <<>>, <<xfer>>)

set_bus(dev, bus) ==
    /\ ~crashed
    /\ UNCHANGED devices
    /\ IF dev = NULL
       THEN Return("set_bus", dev, <<bus>>, "QIPROG_ERR_ARG", <<>>, <<>>)
       ELSE IF NoPriv(dev)
       THEN Return("set_bus", dev, <<bus>>, "QIPROG_ERR_ARG", <<>>, <<>>)
       ELSE IF bus = 0
       THEN Return("set_bus", dev, <<bus>>, "QIPROG_ERR_ARG", <<>>, <<>>)
       ELSE \E r \in ControlResults(0),
               crash \in CrashChoices(devices[dev].handle) :
            LET priv == devices[dev]
                wValue == HighHalf(bus)
                wIndex == LowHalf(bus)
                xfer == libusb_control_transfer(priv.handle, REQ_OUT,
                            "QIPROG_SET_BUS", wValue, wIndex,
                            <<>>, 0, Timeout, r)
            IN  IF crash THEN Crash("set_bus", dev, <<bus>>, <<xfer>>)
                ELSE IF TransferFailed(r)
                THEN Return("set_bus", dev, <<bus>>, "QIPROG_ERR", <<>>, <<xfer>>)
                ELSE Return("set_bus", dev, <<bus>>, "QIPROG_SUCCESS",
                            <<>>, <<xfer>>)

read_chip_id(dev) ==
    /\ ~crashed
    /\ UNCHANGED devices
    /\ IF dev = NULL
       THEN Return("read_chip_id", dev, <<>>, "QIPROG_ERR_ARG", <<>>, <<>>)
       ELSE IF NoPriv(dev)
       THEN Return("read_chip_id", dev, <<>>, "QIPROG_ERR_ARG", <<>>, <<>>)
       ELSE \E r \in ControlResults(ChipIdSize * ChipIds),
               wire \in WireSamples(ChipIdSize * ChipIds),
               g \in Garbage, crash \in CrashChoices(devices[dev].handle) :
            LET priv == devices[dev]
                xfer == libusb_control_transfer(priv.handle, REQ_IN,
                            "QIPROG_READ_DEVICE_ID", 0, 0,
                            Received(wire, r), ChipIdSize * ChipIds, Timeout, r)
                buf == BufAfter(wire, r, g)
                \* ids[i] flattened: id_method, vendor_id, device_id
                ids == [k \in 1..(3 * ChipIds) |->
                          LET off == ChipIdSize * ((k - 1) \div 3)
                          IN  CASE (k - 1) % 3 = 0 -> buf[off + 1]
                                [] (k - 1) % 3 = 1 -> le16_to_h(buf, off + 1)
                                [] OTHER -> le32_to_h(buf, off + 3)]
            IN  IF crash THEN Crash("read_chip_id", dev, <<>>, <<xfer>>)
                ELSE IF TransferFailed(r)
                THEN Return("read_chip_id", dev, <<>>, "QIPROG_ERR", <<>>, <<xfer>>)
                ELSE Return("read_chip_id", dev, <<>>, "QIPROG_SUCCESS",
                            ids, <<xfer>>)

read8(dev, addr) ==
    /\ ~crashed
    /\ UNCHANGED devices
    /\ IF dev = NULL
       THEN Return("read8", dev, <<addr>>, "QIPROG_ERR_ARG", <<>>, <<>>)
       ELSE IF NoPriv(dev)
       THEN Return("read8", dev, <<addr>>, "QIPROG_ERR_ARG", <<>>, <<>>)
       ELSE \E r \in ControlResults(1), wire \in WireSamples(1),
               g \in Garbage, crash \in CrashChoices(devices[dev].handle) :
            LET priv == devices[dev]
                wValue == HighHalf(addr)
                wIndex == LowHalf(addr)
                xfer == libusb_control_transfer(priv.handle, REQ_IN,
                            "QIPROG_READ8", wValue, wIndex,
                            Received(wire, r), 1, Timeout, r)
            IN  IF crash THEN Crash("read8", dev, <<addr>>, <<xfer>>)
                ELSE IF TransferFailed(r)
                THEN Return("read8", dev, <<addr>>, "QIPROG_ERR", <<>>, <<xfer>>)
                ELSE Return("read8", dev, <<addr>>, "QIPROG_SUCCESS",
                            IF r >= 1 THEN <<wire[1]>> ELSE <<>>, <<xfer>>)

read16(dev, addr) ==
    /\ ~crashed
    /\ UNCHANGED devices
    /\ IF dev = NULL
       THEN Return("read16", dev, <<addr>>, "QIPROG_ERR_ARG", <<>>, <<>>)
       ELSE IF NoPriv(dev)
       THEN Return("read16", dev, <<addr>>, "QIPROG_ERR_ARG", <<>>, <<>>)
       ELSE \E r \in ControlResults(2), wire \in WireSamples(2),
               g \in Garbage, crash \in CrashChoices(devices[dev].handle) :
            LET priv == devices[dev]
                wValue == HighHalf(addr)
                wIndex == LowHalf(addr)
                xfer == libusb_control_transfer(priv.handle, REQ_IN,
                            "QIPROG_READ16", wValue, wIndex,
                            Received(wire, r), 2, Timeout, r)
                buf == BufAfter(wire, r, g)
            IN  IF crash THEN Crash("read16", dev, <<addr>>, <<xfer>>)
                ELSE IF TransferFailed(r)
                THEN Return("read16", dev, <<addr>>, "QIPROG_ERR", <<>>, <<xfer>>)
                ELSE Return("read16", dev, <<addr>>, "QIPROG_SUCCESS",
                            <<le16_to_h(buf, 0)>>, <<xfer>>)

read32(dev, addr) ==
    /\ ~crashed
    /\ UNCHANGED devices
    /\ IF dev = NULL
       THEN Return("read32", dev, <<addr>>, "QIPROG_ERR_ARG", <<>>, <<>>)
       ELSE IF NoPriv(dev)
       THEN Return("read32", dev, <<addr>>, "QIPROG_ERR_ARG", <<>>, <<>>)
       ELSE \E r \in ControlResults(4), wire \in WireSamples(4),
               g \in Garbage, crash \in CrashChoices(devices[dev].handle) :
            LET priv == devices[dev]
                wValue == HighHalf(addr)
                wIndex == LowHalf(addr)
                xfer == libusb_control_transfer(priv.handle, REQ_IN,
                            "QIPROG_READ32", wValue, wIndex,
                            Received(wire, r), 4, Timeout, r)
                buf == BufAfter(wire, r, g)
            IN  IF crash THEN Crash("read32", dev, <<addr>>, <<xfer>>)
                ELSE IF TransferFailed(r)
                THEN Return("read32", dev, <<addr>>, "QIPROG_ERR", <<>>, <<xfer>>)
                ELSE Return("read32", dev, <<addr>>, "QIPROG_SUCCESS",
                            <<le32_to_h(buf, 0)>>, <<xfer>>)

write8(dev, addr, data) ==
    /\ ~crashed
    /\ UNCHANGED devices
    /\ IF dev = NULL
       THEN Return("write8", dev, <<addr, data>>, "QIPROG_ERR_ARG", <<>>, <<>>)
       ELSE IF NoPriv(dev)
       THEN Return("write8", dev, <<addr, data>>, "QIPROG_ERR_ARG", <<>>, <<>>)
       ELSE \E r \in ControlResults(1),
               crash \in CrashChoices(devices[dev].handle) :
            LET priv == devices[dev]
                wValue == HighHalf(addr)
                wIndex == LowHalf(addr)
                buf == <<data>>
                xfer == libusb_control_transfer(priv.handle, REQ_OUT,
                            "QIPROG_WRITE8", wValue, wIndex,
                            buf, 1, Timeout, r)
            IN  IF crash THEN Crash("write8", dev, <<addr, data>>, <<xfer>>)
                ELSE IF TransferFailed(r)
                THEN Return("write8", dev, <<addr, data>>, "QIPROG_ERR", <<>>, <<xfer>>)
                ELSE Return("write8", dev, <<addr, data>>, "QIPROG_SUCCESS",
                            <<>>, <<xfer>>)

write16(dev, addr, data) ==
    /\ ~crashed
    /\ UNCHANGED devices
    /\ IF dev = NULL
       THEN Return("write16", dev, <<addr, data>>, "QIPROG_ERR_ARG", <<>>, <<>>)
       ELSE IF NoPriv(dev)
       THEN Return("write16", dev, <<addr, data>>, "QIPROG_ERR_ARG", <<>>, <<>>)
       ELSE \E r \in ControlResults(2),
               crash \in CrashChoices(devices[dev].handle) :
            LET priv == devices[dev]
                wValue == HighHalf(addr)
                wIndex == LowHalf(addr)
                buf == h_to_le16(data)
                xfer == libusb_control_transfer(priv.handle, REQ_OUT,
                            "QIPROG_WRITE16", wValue, wIndex,
                            buf, 2, Timeout, r)
            IN  IF crash THEN Crash("write16", dev, <<addr, data>>, <<xfer>>)
                ELSE IF TransferFailed(r)
                THEN Return("write16", dev, <<addr, data>>, "QIPROG_ERR", <<>>, <<xfer>>)
                ELSE Return("write16", dev, <<addr, data>>, "QIPROG_SUCCESS",
                            <<>>, <<xfer>>)

write32(dev, addr, data) ==
    /\ ~crashed
    /\ UNCHANGED devices
    /\ IF dev = NULL
       THEN Return("write32", dev, <<addr, data>>, "QIPROG_ERR_ARG", <<>>, <<>>)
       ELSE IF NoPriv(dev)
       THEN Return("write32", dev, <<addr, data>>, "QIPROG_ERR_ARG", <<>>, <<>>)
       ELSE \E r \in ControlResults(4),
               crash \in CrashChoices(devices[dev].handle) :
            LET priv == devices[dev]
                wValue == HighHalf(addr)
                wIndex == LowHalf(addr)
                buf == h_to_le32(data)
                xfer == libusb_control_transfer(priv.handle, REQ_OUT,
                            "QIPROG_WRITE32", wValue, wIndex,
                            buf, 4, Timeout, r)
            IN  IF crash THEN Crash("write32", dev, <<addr, data>>, <<xfer>>)
                ELSE IF TransferFailed(r)
                THEN Return("write32", dev, <<addr, data>>, "QIPROG_ERR", <<>>, <<xfer>>)
                ELSE Return("write32", dev, <<addr, data>>, "QIPROG_SUCCESS",
                            <<>>, <<xfer>>)

\* Faulty variant: start and end are stored in each other's field
AddressPayload_swapped(start, end) == h_to_le32(end) \o h_to_le32(start)

\* The struct qiprog_address set_address lays out in buf

AddressPayload(start, end) == h_to_le32(start) \o h_to_le32(end)

set_address(dev, start, end) ==
    /\ ~crashed
    /\ UNCHANGED devices
    /\ IF dev = NULL
       THEN Return("set_address", dev, <<start, end>>, "QIPROG_ERR_ARG", <<>>, <<>>)
       ELSE IF NoPriv(dev)
       THEN Return("set_address", dev, <<start, end>>, "QIPROG_ERR_ARG", <<>>, <<>>)
       ELSE \E r \in ControlResults(AddressSize),
               crash \in CrashChoices(devices[dev].handle) :
            LET priv == devices[dev]
                buf == AddressPayload(start, end)
                xfer == libusb_control_transfer(priv.handle, REQ_OUT,
                            "QIPROG_SET_ADDRESS", 0, 0,
                            buf, AddressSize, Timeout, r)
            IN  IF crash THEN Crash("set_address", dev, <<start, end>>, <<xfer>>)
                ELSE IF TransferFailed(r)
                THEN Return("set_address", dev, <<start, end>>, "QIPROG_ERR", <<>>, <<xfer>>)
                ELSE Return("set_address", dev, <<start, end>>, "QIPROG_SUCCESS",
                            <<>>, <<xfer>>)

(***************************************************************************)
(* The program: the driver list of the default build, and every call a     *)
(* client can make.                                                        *)
(***************************************************************************)
Init ==
    /\ driver_list = <<USB_DRV>>
    /\ usb_bus = <<SampleBus>>
    /\ devices = <<>>
    /\ list = <<>>
    /\ call = [op |-> "init", dev |-> NULL, args |-> <<>>, bus |-> <<>>]
    /\ ret = "none"
    /\ out = <<>>
    /\ usb_calls = <<>>
    /\ crashed = FALSE

\* Device pointers a caller can pass
DevArgs == 0..Len(devices)

Next ==
    \/ \E ctx \in {0, 1}, init_ok \in BOOLEAN, bus \in Buses :
            qiprog_get_device_list(ctx, init_ok, bus, MaxDevs)
    \/ qiprog_new_device
    \/ \E dev \in DevArgs : dev_open(dev)
    \/ \E dev \in DevArgs : get_capabilities(dev)
    \/ \E dev \in DevArgs, bus \in BusArgs : set_bus(dev, bus)
    \/ \E dev \in DevArgs : read_chip_id(dev)
    \/ \E dev \in DevArgs, addr \in Addrs : read8(dev, addr)
    \/ \E dev \in DevArgs, addr \in Addrs : read16(dev, addr)
    \/ \E dev \in DevArgs, addr \in Addrs : read32(dev, addr)
    \/ \E dev \in DevArgs, addr \in Addrs, data \in Data8 : write8(dev, addr, data)
    \/ \E dev \in DevArgs, addr \in Addrs, data \in Data16 : write16(dev, addr, data)
    \/ \E dev \in DevArgs, addr \in Addrs, data \in Data32 : write32(dev, addr, data)
    \/ \E dev \in DevArgs, r \in Ranges : set_address(dev, r[1], r[2])

Spec == Init /\ [][Next]_vars

(***************************************************************************)
(* Discovery over any driver list: the loop of qiprog_get_device_list does *)
(* not depend on which drivers are compiled in.  other_drv stands for a    *)
(* second backend with a scan routine, noscan_drv for one without.         *)
(***************************************************************************)
DriverNames == {USB_DRV, "other_drv", "noscan_drv"}

\* Driver lists without repetition, up to MaxDrivers long
DriverLists ==
    { l \in UNION { [1..n -> DriverNames] : n \in 0..MaxDrivers } :
        \A i, j \in 1..Len(l) : l[i] = l[j] => i = j }

InitDiscovery ==
    /\ driver_list \in DriverLists
    /\ usb_bus \in [1..Len(driver_list) -> Enums]
    /\ \A i \in 1..Len(driver_list) : ~HasScan(driver_list[i]) => usb_bus[i] = <<>>
    /\ devices = <<>>
    /\ list = <<>>
    /\ call = [op |-> "init", dev |-> NULL, args |-> <<>>, bus |-> <<>>]
    /\ ret = "none"
    /\ out = <<>>
    /\ usb_calls = <<>>
    /\ crashed = FALSE

\* Discovery is explored from an empty heap: a run ends with the first call
\* that finds devices
NextDiscovery ==
    \E ctx \in {0, 1}, init_ok \in BOOLEAN, bus \in Buses :
        /\ devices = <<>>
        /\ qiprog_get_device_list(ctx, init_ok, bus, MaxListed)

SpecDiscovery == InitDiscovery /\ [][NextDiscovery]_vars

(***************************************************************************)
(* Properties.                                                             *)
(***************************************************************************)
GDL == "qiprog_get_device_list"

\* The device operations of the USB driver
DeviceOps == {"dev_open", "get_capabilities", "set_bus", "set_address",
              "read_chip_id", "read8", "read16", "read32",
              "write8", "write16", "write32"}

\* Those that talk the protocol
ProtocolOps == DeviceOps \ {"dev_open"}

AddressedOps == {"read8", "read16", "read32", "write8", "write16", "write32"}

\* The last call was given no device, or one without private state
BadDevice == call.dev = NULL \/ ~devices[call.dev].has_priv

\* The last call passed its argument checks
ChecksPassed ==
    /\ call.op \in ProtocolOps
    /\ ~BadDevice
    /\ call.op = "set_bus" => call.args[1] # 0

\* C1: a device operation given a null device, or a device whose private
\* state is null, returns QIPROG_ERR_ARG and makes no transport call.
C1_ArgumentGuards ==
    (call.op \in DeviceOps /\ BadDevice)
        => (ret = "QIPROG_ERR_ARG" /\ usb_calls = <<>>)

\* set_address was called on a device that has no private state
C1_Witness ==
    /\ call.op = "set_address"
    /\ call.dev # NULL
    /\ ~devices[call.dev].has_priv
    /\ ret = "QIPROG_ERR_ARG"

\* C2: on a good device, set_bus with selector zero returns QIPROG_ERR_ARG
\* and issues no transfer; with any other selector it issues exactly one
\* SET_BUS transfer.
C2_SetBusZero ==
    (call.op = "set_bus" /\ ~BadDevice)
        => IF call.args[1] = 0
           THEN ret = "QIPROG_ERR_ARG" /\ usb_calls = <<>>
           ELSE /\ Len(usb_calls) = 1
                /\ usb_calls[1].fn = "libusb_control_transfer"
                /\ usb_calls[1].bRequest = "QIPROG_SET_BUS"

\* set_bus was called with selector zero on a device that has private state
C2_Witness ==
    /\ call.op = "set_bus"
    /\ ~BadDevice
    /\ call.args[1] = 0
    /\ ret = "QIPROG_ERR_ARG"

\* C3: qiprog_get_device_list with a null context returns count 0, so the
\* list it yields (the first `count` entries behind the caller's pointer) is
\* empty; no scan runs (no libusb call, no device constructed) and nothing
\* is done with the context: the caller's list pointer is left as it was.
C3_NullContext ==
    [][(call'.op = GDL /\ call'.args[1] = NULL)
        => /\ ret' = "size_t"
           /\ out' = <<0>>
           /\ SubSeq(list', 1, out'[1]) = <<>>
           /\ usb_calls' = <<>>
           /\ devices' = devices
           /\ list' = list]_vars

\* Discovery was called with a null context after a call that listed a device
C3_Witness ==
    /\ call.op = GDL
    /\ call.args[1] = NULL
    /\ out = <<0>>
    /\ Len(list) > 0

\* The k-th smallest element of a set of numbers
Kth(S, k) == CHOOSE x \in S : Cardinality({ y \in S : y < x }) = k - 1

Min(a, b) == IF a < b THEN a ELSE b

\* What the scan of driver i finds, told from the bus alone: the positions
\* of the matching devices in enumeration order, as many as could be built
Found(i) ==
    LET P == { k \in 1..Len(usb_bus[i]) :
                 /\ usb_bus[i][k].descr_ok
                 /\ usb_bus[i][k].idVendor = "USB_VID_OPENMOKO"
                 /\ usb_bus[i][k].idProduct = "USB_PID_OPENMOKO_VULTUREPROG" }
        n == IF call.bus[i].cnt < 0 THEN 0
             ELSE Min(call.bus[i].allocs, Cardinality(P))
    IN  [k \in 1..n |-> <<driver_list[i], Kth(P, k)>>]

\* The concatenation of the finds of drivers i.. in driver-list order
RECURSIVE Expected(_)
Expected(i) ==
    IF i > Len(driver_list) THEN <<>>
    ELSE (IF driver_list[i] = "noscan_drv" THEN <<>> ELSE Found(i))
         \o Expected(i + 1)

\* The returned list, each device told by its driver and its USB device
Listed == [k \in 1..Len(list) |-> <<devices[list[k]].drv, devices[list[k]].usb_dev>>]

\* C4: the list a discovery call that scans returns is the concatenation, in
\* driver-list order, of each driver's devices in its enumeration order;
\* drivers without scan and drivers that find nothing contribute nothing;
\* the count is the length of the list.
C4_Concatenation ==
    (call.op = GDL /\ call.args = <<1, 1>>)
        => /\ Listed = Expected(1)
           /\ out = <<Len(Expected(1))>>
           /\ \A j, k \in 1..Len(list) : list[j] = list[k] => j = k

\* Two drivers contributed to one list of three devices
C4_Witness ==
    /\ call.op = GDL
    /\ call.args = <<1, 1>>
    /\ Len(list) = 3
    /\ devices[list[1]].drv # devices[list[3]].drv

\* C5: read8/16/32 and write8/16/32 pass the upper 16 bits of the address
\* in wValue and the lower 16 bits in wIndex; 0x12345678 gives 0x1234 and
\* 0x5678.
C5_AddressSplit ==
    (call.op \in AddressedOps /\ ~BadDevice)
        => /\ Len(usb_calls) = 1
           /\ usb_calls[1].wValue \in 0..65535
           /\ usb_calls[1].wIndex \in 0..65535
           /\ usb_calls[1].wValue = call.args[1] \div 65536
           /\ usb_calls[1].wIndex = call.args[1] % 65536
           /\ usb_calls[1].wValue * 65536 + usb_calls[1].wIndex = call.args[1]
           /\ call.args[1] = 305419896
                => (usb_calls[1].wValue = 4660 /\ usb_calls[1].wIndex = 22136)

\* write16 was called with address 0x12345678
C5_Witness ==
    /\ call.op = "write16"
    /\ ~BadDevice
    /\ call.args[1] = 305419896
    /\ Len(usb_calls) = 1
    /\ usb_calls[1].wValue = 4660

\* Request code, length and direction of each protocol operation; the
\* capabilities are 4 + 2 + 4 + 10 * 2 bytes, a chip id is 1 + 2 + 4 bytes
ReqOf(op) ==
    CASE op = "get_capabilities" ->
            <<"QIPROG_GET_CAPABILITIES", 30, "device-to-host">>
      [] op = "set_bus" -> <<"QIPROG_SET_BUS", 0, "host-to-device">>
      [] op = "read_chip_id" ->
            <<"QIPROG_READ_DEVICE_ID", 9 * 7, "device-to-host">>
      [] op = "set_address" -> <<"QIPROG_SET_ADDRESS", 8, "host-to-device">>
      [] op = "read8" -> <<"QIPROG_READ8", 1, "device-to-host">>
      [] op = "read16" -> <<"QIPROG_READ16", 2, "device-to-host">>
      [] op = "read32" -> <<"QIPROG_READ32", 4, "device-to-host">>
      [] op = "write8" -> <<"QIPROG_WRITE8", 1, "host-to-device">>
      [] op = "write16" -> <<"QIPROG_WRITE16", 2, "host-to-device">>
      [] op = "write32" -> <<"QIPROG_WRITE32", 4, "host-to-device">>

\* C6: a protocol operation that passes its argument checks issues exactly
\* one control transfer, with the request code, the length and the
\* direction of that operation.
C6_OneTransfer ==
    ChecksPassed
        => /\ Len(usb_calls) = 1
           /\ usb_calls[1].fn = "libusb_control_transfer"
           /\ usb_calls[1].bRequest = ReqOf(call.op)[1]
           /\ usb_calls[1].wLength = ReqOf(call.op)[2]
           /\ Direction(usb_calls[1].bmRequestType) = ReqOf(call.op)[3]
           /\ usb_calls[1].bmRequestType \in {64, 192}

\* set_address passed its checks and its transfer succeeded
C6_Witness ==
    /\ call.op = "set_address"
    /\ ChecksPassed
    /\ ret = "QIPROG_SUCCESS"
    /\ Len(usb_calls) = 1

\* C7: every control transfer has the timeout 3000 ms; a transfer that
\* fails, by timeout or otherwise, makes the operation return QIPROG_ERR,
\* which is not the argument error; the operation returns success only when
\* the transfer result is not negative.
C7_TimeoutAndErrors ==
    \A k \in 1..Len(usb_calls) :
        usb_calls[k].fn = "libusb_control_transfer"
            => /\ usb_calls[k].timeout = 3000
               /\ call.op \in ProtocolOps
               /\ (usb_calls[k].ret < 0 /\ ret # "none")
                    => (ret = "QIPROG_ERR" /\ ret # "QIPROG_ERR_ARG")
               /\ ret = "QIPROG_SUCCESS" => usb_calls[k].ret >= 0
               /\ ret \in {"QIPROG_SUCCESS", "QIPROG_ERR", "none"}

\* A read on an opened device failed with an error other than a timeout
C7_Witness ==
    /\ call.op = "read32"
    /\ Len(usb_calls) = 1
    /\ usb_calls[1].handle # NULL
    /\ usb_calls[1].ret = -1
    /\ ret = "QIPROG_ERR"

\* C8: the devices a discovery call appends are bound to the USB driver and
\* unopened, and the call opens no device; a handle becomes non-null only
\* in a dev_open call on that device.
C8_ScanLeavesUnopened ==
    [][/\ call'.op = GDL
            => /\ \A k \in 1..Len(usb_calls') : usb_calls'[k].fn # "libusb_open"
               /\ \A d \in 1..Len(devices) : devices'[d] = devices[d]
               /\ call'.args = <<1, 1>>
                    => \A k \in 1..Len(list') :
                          /\ list'[k] \in (Len(devices) + 1)..Len(devices')
                          /\ devices'[list'[k]].drv = USB_DRV
                          /\ devices'[list'[k]].has_priv
                          /\ devices'[list'[k]].handle = NULL
       /\ \A d \in 1..Len(devices') :
            (devices'[d].handle # NULL
                /\ (d > Len(devices) \/ devices[d].handle = NULL))
                => (call'.op = "dev_open" /\ call'.dev = d)]_vars

\* Discovery listed a new, unopened device while an older one is open
C8_Witness ==
    /\ call.op = GDL
    /\ Len(list) = 1
    /\ devices[list[1]].handle = NULL
    /\ \E d \in 1..Len(devices) : devices[d].handle # NULL

\* Little-endian value of the n bytes at offset off of the bytes rx
RECURSIVE LEValue(_, _, _)
LEValue(rx, off, n) ==
    IF n = 0 THEN 0 ELSE rx[off + 1] + 256 * LEValue(rx, off + 1, n - 1)

\* The field of n bytes at offset off was received and decodes to v
FieldIs(rx, off, n, v) == off + n <= Len(rx) /\ v = LEValue(rx, off, n)

\* C9: when the GET_CAPABILITIES transfer (on an opened device) succeeds,
\* get_capabilities returns success and every field of the capabilities is the little-endian
\* decoding of the received bytes at its offset (u32 bus_master at 0, u16
\* instruction_set at 4, u32 max_direct_data at 6, ten u16 voltages from
\* 10); bytes for 1, 0x0002 and 64 give those three values.
C9_CapabilitiesDecoded ==
    (call.op = "get_capabilities" /\ Len(usb_calls) = 1
        /\ usb_calls[1].handle # NULL /\ usb_calls[1].ret >= 0)
        => /\ ret = "QIPROG_SUCCESS"
           /\ Len(out) = 13
           /\ FieldIs(usb_calls[1].data, 0, 4, out[1])
           /\ FieldIs(usb_calls[1].data, 4, 2, out[2])
           /\ FieldIs(usb_calls[1].data, 6, 4, out[3])
           /\ \A i \in 1..10 :
                FieldIs(usb_calls[1].data, 10 + 2 * (i - 1), 2, out[3 + i])
           /\ SubSeq(usb_calls[1].data, 1, 10) = <<1, 0, 0, 0, 2, 0, 64, 0, 0, 0>>
                => SubSeq(out, 1, 3) = <<1, 2, 64>>

\* C10: set_address issues a SET_ADDRESS transfer with a payload of 8
\* bytes: the little-endian encoding of start, then that of end; 0x1000 and
\* 0x2000 are sent as 00 10 00 00 and 00 20 00 00.
C10_AddressPayload ==
    (call.op = "set_address" /\ ~BadDevice)
        => /\ Len(usb_calls) = 1
           /\ usb_calls[1].bRequest = "QIPROG_SET_ADDRESS"
           /\ usb_calls[1].wLength = 8
           /\ Len(usb_calls[1].data) = 8
           /\ \A k \in 1..8 : usb_calls[1].data[k] \in 0..255
           /\ LEValue(usb_calls[1].data, 0, 4) = call.args[1]
           /\ LEValue(usb_calls[1].data, 4, 4) = call.args[2]
           /\ call.args = <<4096, 8192>>
                => usb_calls[1].data = <<0, 16, 0, 0, 0, 32, 0, 0>>

\* set_address(dev, 0x1000, 0x2000) was called on an opened device
C10_Witness ==
    /\ call.op = "set_address"
    /\ ~BadDevice
    /\ devices[call.dev].handle # NULL
    /\ call.args = <<4096, 8192>>
    /\ Len(usb_calls) = 1

\* The last call issued a control transfer
IssuedTransfer ==
    \E k \in 1..Len(usb_calls) : usb_calls[k].fn = "libusb_control_transfer"

\* C11: a control transfer is issued for a device only while it is Open,
\* that is only after a dev_open on it returned success; a protocol
\* operation on a device still in the Discovered state issues no control
\* transfer.  A device whose handle is null is in the Discovered state: the
\* handle is set by dev_open alone and is never cleared.
C11_TransfersOnlyWhenOpen ==
    (call.op \in ProtocolOps /\ ~BadDevice /\ devices[call.dev].handle = NULL)
        => ~IssuedTransfer

\* C12: a dev_open that returns a failure, whether libusb_open or
\* libusb_claim_interface failed, leaves the device Discovered, holding no
\* opened handle; a device comes to hold a handle only in a dev_open on it
\* that returns QIPROG_SUCCESS.
C12_FailedOpenLeavesDiscovered ==
    [][\A d \in 1..Len(devices) :
          (devices[d].handle = NULL /\ devices'[d].handle # NULL)
              => /\ call'.op = "dev_open"
                 /\ call'.dev = d
                 /\ ret' = "QIPROG_SUCCESS"]_vars

====
